---- MODULE Spec2Model ----
(***************************************************************************)
(* PDFReportGenerator (REPORT_GENERATOR.py): a CSV loader, an analyzer of  *)
(* the columns value1 / value2 and a fixed-layout report renderer, run in  *)
(* sequence by the script entry point.                                     *)
(*                                                                         *)
(* Floats are modelled as exact rationals plus NaN; comparisons with NaN   *)
(* are false as in IEEE 754.  Rounding of binary floating point and the    *)
(* infinities are not modelled.                                            *)
(***************************************************************************)
EXTENDS Integers, Sequences, FiniteSets, TLC

VARIABLES
    source,            \* the input file at data_file: status and content
    sinkOk,            \* whether output_file can be opened for writing
    pc,                \* position of the caller
    data,              \* self.data
    analysis_results,  \* self.analysis_results
    output,            \* the document stored at output_file
    writes,            \* number of documents written so far
    calls,             \* the stage calls made so far, with their outcomes
    lastGood,          \* result of the latest analyze_data call that returned True
    clock              \* the wall clock, in ticks

vars == <<source, sinkOk, pc, data, analysis_results, output, writes, calls,
          lastGood, clock>>

(***************************************************************************)
(* Bounds                                                                  *)
(***************************************************************************)
\* longest input file, in records after the header (script runs)
MaxRows == 2
\* longest input file read by a free sequence of calls
MaxApiRows == 1
\* number of calls in a free sequence of calls on one generator
MaxCalls == 4

(***************************************************************************)
(* Numbers: Python floats as rationals n/d in lowest terms, or NaN         *)
(***************************************************************************)
Abs(i) == IF i < 0 THEN -i ELSE i

RECURSIVE GCD(_, _)
GCD(a, b) == IF b = 0 THEN a ELSE GCD(b, a % b)

Rat(n, d) ==
    LET s == IF d < 0 THEN -1 ELSE 1
        g == GCD(Abs(n), Abs(d))
    IN  [nan |-> FALSE, n |-> (s * n) \div g, d |-> (s * d) \div g]

Num(i) == Rat(i, 1)
NaN == [nan |-> TRUE, n |-> 0, d |-> 1]
Zero == Num(0)
One == Num(1)

Add(a, b) == IF a.nan \/ b.nan THEN NaN ELSE Rat(a.n * b.d + b.n * a.d, a.d * b.d)
Mul(a, b) == IF a.nan \/ b.nan THEN NaN ELSE Rat(a.n * b.n, a.d * b.d)
\* a / b for b # 0 (b = 0 raises ZeroDivisionError, see DivRaises)
Div(a, b) == IF a.nan \/ b.nan THEN NaN ELSE Rat(a.n * b.d, a.d * b.n)
DivRaises(a, b) == ~b.nan /\ b.n = 0

\* a < b and a <= b on floats: false when either side is NaN
Less(a, b) == ~a.nan /\ ~b.nan /\ a.n * b.d < b.n * a.d
LessEq(a, b) == ~a.nan /\ ~b.nan /\ a.n * b.d <= b.n * a.d

\* bool(x) of a float: only zero is falsy (NaN is truthy)
Truthy(x) == x.nan \/ x.n # 0

(***************************************************************************)
(* float(text): the cell texts the inputs are drawn from                   *)
(***************************************************************************)
\* Python None: DictReader's restval for a field a short record lacks
PyNone == "<None>"

\* cells a record may carry, by column: script runs, and free call sequences
ScriptCells ==
    [value1 |-> {"0", "1", "3", "-4", "abc", "nan"},
     value2 |-> {"0", "10", "20", "0.5", "-2", "abc"},
     id     |-> {"x"}]
ApiCells ==
    [value1 |-> {"1", "abc"}, value2 |-> {"10"}, id |-> {"x"}]

\* float(cell): ok = FALSE stands for ValueError (text that is no float
\* literal) or TypeError (None); "nan" is a float literal
ParseFloat(cell) ==
    CASE cell = "0"   -> [ok |-> TRUE, val |-> Num(0)]
      [] cell = "1"   -> [ok |-> TRUE, val |-> Num(1)]
      [] cell = "3"   -> [ok |-> TRUE, val |-> Num(3)]
      [] cell = "10"  -> [ok |-> TRUE, val |-> Num(10)]
      [] cell = "20"  -> [ok |-> TRUE, val |-> Num(20)]
      [] cell = "-4"  -> [ok |-> TRUE, val |-> Num(-4)]
      [] cell = "-2"  -> [ok |-> TRUE, val |-> Num(-2)]
      [] cell = "0.5" -> [ok |-> TRUE, val |-> Rat(1, 2)]
      [] cell = "nan" -> [ok |-> TRUE, val |-> NaN]
      [] OTHER        -> [ok |-> FALSE, val |-> Zero]

(***************************************************************************)
(* The input file and csv.DictReader                                       *)
(***************************************************************************)
\* header lines: none (empty file), both columns, one of them, neither
Headers == {<<>>, <<"value1", "value2">>, <<"value1">>, <<"value2">>, <<"id">>}

\* the records a file with header h may hold: one cell per column, possibly
\* cut short (a short record), possibly blank
RecordsFor(h, cells) ==
    UNION {{r \in [1..n -> UNION {cells[h[i]] : i \in 1..Len(h)}] :
                \A i \in 1..n : r[i] \in cells[h[i]]} : n \in 0..Len(h)}

EmptyFile == [fieldnames |-> <<>>, records |-> <<>>]

\* src is what open() may find at data_file: a file of at most maxRows
\* records under one of the headers, no file, or a file that cannot be read
InputAt(src, maxRows, cells) ==
    \/ \E h \in Headers : \E n \in 0..(IF h = <<>> THEN 0 ELSE maxRows) :
          \E rs \in [1..n -> RecordsFor(h, cells)] :
             src = [status |-> "ok",
                    content |-> [fieldnames |-> h, records |-> rs]]
    \/ src = [status |-> "missing", content |-> EmptyFile]
    \/ src = [status |-> "unreadable", content |-> EmptyFile]

\* one row of DictReader: the header's names mapped to the record's cells,
\* None for the fields a short record lacks
RowOf(h, r) ==
    [k \in {h[i] : i \in 1..Len(h)} |->
        LET i == CHOOSE j \in 1..Len(h) : h[j] = k
        IN  IF i <= Len(r) THEN r[i] ELSE PyNone]

\* [row for row in reader]: blank records are skipped, order is kept
RECURSIVE DictReader(_, _)
DictReader(h, rs) ==
    IF rs = <<>> THEN <<>>
    ELSE IF Head(rs) = <<>> THEN DictReader(h, Tail(rs))
    ELSE <<RowOf(h, Head(rs))>> \o DictReader(h, Tail(rs))

(***************************************************************************)
(* load_data                                                               *)
(***************************************************************************)
\* the value returned and self.data afterwards; both except-branches return
\* False before self.data is assigned
load_data(src, old) ==
    IF src.status = "ok"
    THEN [ret |-> TRUE,
          data |-> DictReader(src.content.fieldnames, src.content.records)]
    ELSE [ret |-> FALSE, data |-> old]

(***************************************************************************)
(* analyze_data                                                            *)
(***************************************************************************)
\* [row[col] for row in self.data if col in row]
RECURSIVE ColumnCells(_, _)
ColumnCells(d, col) ==
    IF d = <<>> THEN <<>>
    ELSE (IF col \in DOMAIN Head(d) THEN <<Head(d)[col]>> ELSE <<>>)
         \o ColumnCells(Tail(d), col)

ParseNeverRaises(cs) == FALSE

\* float(...) raises on some cell of the comprehension
ParseRaises(cs) == \E i \in 1..Len(cs) : ~ParseFloat(cs[i]).ok
ParseAll(cs) == [i \in 1..Len(cs) |-> ParseFloat(cs[i]).val]

RECURSIVE Sum(_)
Sum(vs) == IF vs = <<>> THEN Zero ELSE Add(Head(vs), Sum(Tail(vs)))

MeanWithoutDivision(vs) == Sum(vs)

\* statistics.mean: the exact sum over the length (NaN if any value is NaN)
Mean(vs) == Div(Sum(vs), Num(Len(vs)))

\* min(values): keeps the first element unless a later one compares smaller
RECURSIVE MinFrom(_, _)
MinFrom(m, vs) ==
    IF vs = <<>> THEN m
    ELSE MinFrom(IF Less(Head(vs), m) THEN Head(vs) ELSE m, Tail(vs))
PyMinFirstOnly(vs) == Head(vs)
PyMin(vs) == MinFrom(Head(vs), Tail(vs))

\* max(values): keeps the first element unless a later one compares greater
RECURSIVE MaxFrom(_, _)
MaxFrom(m, vs) ==
    IF vs = <<>> THEN m
    ELSE MaxFrom(IF Less(m, Head(vs)) THEN Head(vs) ELSE m, Tail(vs))
PyMax(vs) == MaxFrom(Head(vs), Tail(vs))

EmptyDict == [k \in {} |-> 0]

ResultKeys ==
    {"count", "value1_avg", "value1_min", "value1_max",
     "value2_avg", "value2_min", "value2_max", "generated_on"}

\* the dictionary literal assigned to self.analysis_results
ResultOf(d, v1, v2, now) ==
    [count        |-> Len(d),
     value1_avg   |-> IF v1 # <<>> THEN Mean(v1) ELSE Zero,
     value1_min   |-> IF v1 # <<>> THEN PyMin(v1) ELSE Zero,
     value1_max   |-> IF v1 # <<>> THEN PyMax(v1) ELSE Zero,
     value2_avg   |-> IF v2 # <<>> THEN Mean(v2) ELSE Zero,
     value2_min   |-> IF v2 # <<>> THEN PyMin(v2) ELSE Zero,
     value2_max   |-> IF v2 # <<>> THEN PyMax(v2) ELSE Zero,
     generated_on |-> now]

AnalyzeStoringCountFirst(d, old, now) ==
    IF d = <<>> THEN [ret |-> FALSE, results |-> old]
    ELSE LET c1 == ColumnCells(d, "value1")
             c2 == ColumnCells(d, "value2")
         IN  IF ParseRaises(c1) \/ ParseRaises(c2)
             THEN [ret |-> FALSE, results |-> [count |-> Len(d)]]
             ELSE [ret |-> TRUE,
                   results |-> ResultOf(d, ParseAll(c1), ParseAll(c2), now)]

\* the value returned and self.analysis_results afterwards
analyze_data(d, old, now) ==
    IF d = <<>> THEN [ret |-> FALSE, results |-> old]
    ELSE LET c1 == ColumnCells(d, "value1")
             c2 == ColumnCells(d, "value2")
         IN  IF ParseRaises(c1) \/ ParseRaises(c2)
             THEN [ret |-> FALSE, results |-> old]
             ELSE [ret |-> TRUE,
                   results |-> ResultOf(d, ParseAll(c1), ParseAll(c2), now)]

(***************************************************************************)
(* generate_report                                                         *)
(***************************************************************************)
\* f"{x:.2f}": x in hundredths, rounded half to even; "nan" for NaN
Format2f(x) ==
    IF x.nan THEN [nan |-> TRUE, cents |-> 0]
    ELSE LET q == (x.n * 100) \div x.d
             r == (x.n * 100) % x.d
         IN  [nan |-> FALSE,
              cents |-> IF 2 * r > x.d THEN q + 1
                        ELSE IF 2 * r = x.d THEN q + (q % 2)
                        ELSE q]

\* max(a, b) of two floats: a unless b compares greater
PyMax2(a, b) == IF Less(a, b) THEN b ELSE a

\* the numerator of scale
BarFullWidth == 100

MaxValFlooredAtOne(res) ==
    LET m == PyMax2(res.value1_max, res.value2_max)
    IN  IF Less(m, One) THEN One ELSE m

MaxValWithoutFallback(res) == PyMax2(res.value1_max, res.value2_max)

\* max(value1_max, value2_max) or 1
MaxVal(res) ==
    LET m == PyMax2(res.value1_max, res.value2_max)
    IN  IF Truthy(m) THEN m ELSE One

\* scale = 100 / max_val
Scale(res) == Div(Num(BarFullWidth), MaxVal(res))

\* width of the bar cell of a series
BarWidth(res, avg) == Mul(avg, Scale(res))

NoDocument == [k \in {} |-> 0]

\* the page handed to pdf.output
Document(res) ==
    [generated_on |-> res.generated_on,
     count        |-> res.count,
     table        |-> [Average |-> <<Format2f(res.value1_avg), Format2f(res.value2_avg)>>,
                       Minimum |-> <<Format2f(res.value1_min), Format2f(res.value2_min)>>,
                       Maximum |-> <<Format2f(res.value1_max), Format2f(res.value2_max)>>],
     bars         |-> [value1 |-> [width |-> BarWidth(res, res.value1_avg),
                                   text  |-> Format2f(res.value1_avg)],
                       value2 |-> [width |-> BarWidth(res, res.value2_avg),
                                   text  |-> Format2f(res.value2_avg)]]]

GenerateWithoutGuard(res, writable, oldOut) ==
    IF ~writable THEN [ret |-> "raised", out |-> oldOut, wrote |-> FALSE]
    ELSE [ret |-> "True",
          out |-> IF res = EmptyDict THEN [blank |-> TRUE] ELSE Document(res),
          wrote |-> TRUE]

\* outcome of the call: "False" (guard), "raised" (an exception leaves the
\* method: ZeroDivisionError from the scale, or the error of pdf.output on a
\* sink that cannot be written), or "True" with the document written
generate_report(res, writable, oldOut) ==
    IF res = EmptyDict THEN [ret |-> "False", out |-> oldOut, wrote |-> FALSE]
    ELSE IF DivRaises(Num(BarFullWidth), MaxVal(res))
         THEN [ret |-> "raised", out |-> oldOut, wrote |-> FALSE]
    ELSE IF ~writable THEN [ret |-> "raised", out |-> oldOut, wrote |-> FALSE]
    ELSE [ret |-> "True", out |-> Document(res), wrote |-> TRUE]

Bool(b) == IF b THEN "True" ELSE "False"

(***************************************************************************)
(* The script entry point                                                  *)
(***************************************************************************)
Init ==
    /\ InputAt(source, MaxRows, ScriptCells)
    /\ sinkOk \in BOOLEAN
    /\ pc = "load"
    /\ data = <<>>
    /\ analysis_results = EmptyDict
    /\ output = NoDocument
    /\ writes = 0
    /\ calls = <<>>
    /\ lastGood = EmptyDict
    /\ clock = 0

AfterLoadIgnoringResult(ok) == "analyze"

\* where the script goes after load_data returned ok
AfterLoad(ok) == IF ok THEN "analyze" ELSE "done"
\* where the script goes after analyze_data returned ok
AfterAnalyze(ok) == IF ok THEN "render" ELSE "done"

\* if generator.load_data():
MainLoad ==
    /\ pc = "load"
    /\ LET r == load_data(source, data)
       IN  /\ data' = r.data
           /\ calls' = Append(calls, [stage |-> "load_data", ret |-> Bool(r.ret)])
           /\ pc' = AfterLoad(r.ret)
    /\ clock' = clock + 1
    /\ UNCHANGED <<source, sinkOk, analysis_results, output, writes, lastGood>>

\* if generator.analyze_data():
MainAnalyze ==
    /\ pc = "analyze"
    /\ LET r == analyze_data(data, analysis_results, clock)
       IN  /\ analysis_results' = r.results
           /\ lastGood' = IF r.ret THEN r.results ELSE lastGood
           /\ calls' = Append(calls, [stage |-> "analyze_data", ret |-> Bool(r.ret)])
           /\ pc' = AfterAnalyze(r.ret)
    /\ clock' = clock + 1
    /\ UNCHANGED <<source, sinkOk, data, output, writes>>

\* generator.generate_report(); an exception leaving it ends the script
MainRender ==
    /\ pc = "render"
    /\ LET r == generate_report(analysis_results, sinkOk, output)
       IN  /\ output' = r.out
           /\ writes' = IF r.wrote THEN writes + 1 ELSE writes
           /\ calls' = Append(calls, [stage |-> "generate_report", ret |-> r.ret])
           /\ pc' = IF r.ret = "raised" THEN "crashed" ELSE "done"
    /\ clock' = clock + 1
    /\ UNCHANGED <<source, sinkOk, data, analysis_results, lastGood>>

Next == MainLoad \/ MainAnalyze \/ MainRender

Spec == Init /\ [][Next]_vars

(***************************************************************************)
(* Free sequences of calls on one generator                                *)
(***************************************************************************)
InitApi ==
    /\ InputAt(source, MaxApiRows, ApiCells)
    /\ sinkOk \in BOOLEAN
    /\ pc = "api"
    /\ data = <<>>
    /\ analysis_results = EmptyDict
    /\ output = NoDocument
    /\ writes = 0
    /\ calls = <<>>
    /\ lastGood = EmptyDict
    /\ clock = 0

\* load_data reads whatever file is at data_file at the time of the call
CallLoad ==
    /\ pc = "api" /\ clock < MaxCalls
    /\ InputAt(source', MaxApiRows, ApiCells)
    /\ LET r == load_data(source', data)
       IN  /\ data' = r.data
           /\ calls' = Append(calls, [stage |-> "load_data", ret |-> Bool(r.ret)])
    /\ clock' = clock + 1
    /\ UNCHANGED <<sinkOk, pc, analysis_results, output, writes, lastGood>>

CallAnalyze ==
    /\ pc = "api" /\ clock < MaxCalls
    /\ LET r == analyze_data(data, analysis_results, clock)
       IN  /\ analysis_results' = r.results
           /\ lastGood' = IF r.ret THEN r.results ELSE lastGood
           /\ calls' = Append(calls, [stage |-> "analyze_data", ret |-> Bool(r.ret)])
    /\ clock' = clock + 1
    /\ UNCHANGED <<source, sinkOk, pc, data, output, writes>>

\* the caller catches what generate_report raises and goes on
CallRender ==
    /\ pc = "api" /\ clock < MaxCalls
    /\ LET r == generate_report(analysis_results, sinkOk, output)
       IN  /\ output' = r.out
           /\ writes' = IF r.wrote THEN writes + 1 ELSE writes
           /\ calls' = Append(calls, [stage |-> "generate_report", ret |-> r.ret])
    /\ clock' = clock + 1
    /\ UNCHANGED <<source, sinkOk, pc, data, analysis_results, lastGood>>

NextApi == CallLoad \/ CallAnalyze \/ CallRender

SpecApi == InitApi /\ [][NextApi]_vars

(***************************************************************************)
(* Properties                                                              *)
(***************************************************************************)
Last(q) == q[Len(q)]

\* the script has called analyze_data (its second call)
AnalyzeCalled == Len(calls) >= 2 /\ calls[2].stage = "analyze_data"
\* the script has called generate_report (its third call)
RenderCalled == Len(calls) >= 3 /\ calls[3].stage = "generate_report"

StageOrder == <<"load_data", "analyze_data", "generate_report">>

\* C1: the script calls load_data, analyze_data, generate_report in this
\* order, each at most once, a stage only after the stage before it returned
\* True (so a failure ends the run), and it writes at most one document.
C1_StagesInOrder ==
    /\ Len(calls) <= 3
    /\ \A i \in 1..Len(calls) :
          /\ calls[i].stage = StageOrder[i]
          /\ i > 1 => calls[i - 1].ret = "True"
    /\ writes <= 1
    /\ writes = 1 => (Len(calls) = 3 /\ calls[3].ret = "True")
    /\ (pc \in {"done", "crashed"} /\ Len(calls) < 3) => Last(calls).ret = "False"

C1_Witness ==
    pc = "done" /\ Len(calls) = 3 /\ writes = 1 /\ output # NoDocument

C1_WitnessAbort ==
    pc = "done" /\ Len(calls) = 2 /\ calls[2].ret = "False" /\ writes = 0

\* rows of data carrying the key col
Carrying(col) == {i \in 1..Len(data) : col \in DOMAIN data[i]}

\* every row has a value1 and a value2 that float() accepts
AllRowsNumeric ==
    \A i \in 1..Len(data) : \A col \in {"value1", "value2"} :
        col \in DOMAIN data[i] /\ ParseFloat(data[i][col]).ok

\* ... and that are ordinary numbers, not NaN
AllRowsFinite ==
    AllRowsNumeric /\
    \A i \in 1..Len(data) : \A col \in {"value1", "value2"} :
        ~ParseFloat(data[i][col]).val.nan

Ordered(res) ==
    /\ LessEq(res.value1_min, res.value1_avg) /\ LessEq(res.value1_avg, res.value1_max)
    /\ LessEq(res.value2_min, res.value2_avg) /\ LessEq(res.value2_avg, res.value2_max)

\* C2 as stated: for a non-empty data in which every row has a value1 and a
\* value2 accepted as a number, analyze_data returns True, count is the
\* number of rows and min <= avg <= max holds for both columns.
C2_AsStated ==
    (AnalyzeCalled /\ data # <<>> /\ AllRowsNumeric) =>
        /\ calls[2].ret = "True"
        /\ analysis_results # EmptyDict
        /\ analysis_results.count = Len(data)
        /\ Ordered(analysis_results)

\* C2 amended: the same for a non-empty data in which every row has a value1
\* and a value2 that parse to ordinary numbers (no NaN): analyze_data returns
\* True, count is the number of rows and min <= avg <= max for both columns.
C2_FiniteOrdered ==
    (AnalyzeCalled /\ data # <<>> /\ AllRowsFinite) =>
        /\ calls[2].ret = "True"
        /\ analysis_results # EmptyDict
        /\ analysis_results.count = Len(data)
        /\ Ordered(analysis_results)

C2_Witness ==
    /\ AnalyzeCalled /\ Len(data) = 2 /\ AllRowsFinite
    /\ analysis_results # EmptyDict
    /\ Less(analysis_results.value1_min, analysis_results.value1_avg)
    /\ Less(analysis_results.value1_avg, analysis_results.value1_max)
    /\ Less(analysis_results.value2_min, analysis_results.value2_avg)

\* the parsed values of column col, by row index
ValueAt(i, col) == ParseFloat(data[i][col]).val

RECURSIVE SumOver(_, _)
SumOver(I, col) ==
    IF I = {} THEN Zero
    ELSE LET i == CHOOSE j \in I : TRUE
         IN  Add(ValueAt(i, col), SumOver(I \ {i}, col))

\* avg, min, max are the mean, a least and a greatest value of column col
\* over the rows carrying it, and 0 when no row carries it
StatsOfColumn(col, avg, min, max) ==
    LET I == Carrying(col) IN
    IF I = {} THEN avg = Zero /\ min = Zero /\ max = Zero
    ELSE /\ Mul(avg, Num(Cardinality(I))) = SumOver(I, col)
         /\ \E i \in I : min = ValueAt(i, col)
         /\ \A i \in I : ~Less(ValueAt(i, col), min)
         /\ \E i \in I : max = ValueAt(i, col)
         /\ \A i \in I : ~Less(max, ValueAt(i, col))

ExampleRows ==
    <<[value1 |-> "1", value2 |-> "10"], [value1 |-> "3", value2 |-> "20"]>>

\* C3: after a successful analyze_data, for value1 and for value2 the stored
\* avg / min / max are the arithmetic mean, the minimum and the maximum of the
\* values of exactly the rows carrying the key, and 0, 0, 0 when no row
\* carries it; rows (1,10),(3,20) give 2,1,3 and 15,10,20 and count 2.
C3_StatsOfCarryingRows ==
    (AnalyzeCalled /\ calls[2].ret = "True") =>
        LET res == analysis_results IN
        /\ res.count = Len(data)
        /\ StatsOfColumn("value1", res.value1_avg, res.value1_min, res.value1_max)
        /\ StatsOfColumn("value2", res.value2_avg, res.value2_min, res.value2_max)
        /\ data = ExampleRows =>
              /\ res.value1_avg = Num(2) /\ res.value1_min = Num(1)
              /\ res.value1_max = Num(3) /\ res.value2_avg = Num(15)
              /\ res.value2_min = Num(10) /\ res.value2_max = Num(20)
              /\ res.count = 2

C3_Witness ==
    AnalyzeCalled /\ calls[2].ret = "True" /\ data = ExampleRows
    /\ analysis_results.value2_avg = Num(15)

C3_WitnessNoKey ==
    AnalyzeCalled /\ calls[2].ret = "True" /\ Carrying("value1") = {}
    /\ Carrying("value2") # {} /\ analysis_results.value1_max = Zero

\* C4: when data is non-empty and no row carries value1, or no row carries
\* value2, analyze_data returns False (missing column) and stores no result.
C4_MissingColumnFails ==
    (AnalyzeCalled /\ data # <<>> /\
     (Carrying("value1") = {} \/ Carrying("value2") = {})) =>
        (calls[2].ret = "False" /\ analysis_results = EmptyDict)

\* some row carries value1 or value2 with a cell float() rejects
SomeCellNotNumeric ==
    \E i \in 1..Len(data) : \E col \in {"value1", "value2"} :
        col \in DOMAIN data[i] /\ ~ParseFloat(data[i][col]).ok

\* C5: if some row carries value1 or value2 with a value that is no number,
\* analyze_data returns False and stores no result, whatever the other rows.
C5_BadValueIsFatal ==
    (AnalyzeCalled /\ SomeCellNotNumeric) =>
        (calls[2].ret = "False" /\ analysis_results = EmptyDict)

\* a bad value in the second row after a good first row
C5_Witness ==
    /\ AnalyzeCalled /\ Len(data) = 2 /\ calls[2].ret = "False"
    /\ data[1] = [value1 |-> "1", value2 |-> "10"]
    /\ data[2] = [value1 |-> "abc", value2 |-> "20"]

\* this step is a call of the stage
Called(stage) == calls' # calls /\ Last(calls').stage = stage

\* some earlier analyze_data call on the generator returned True
SomeAnalyzeSucceeded ==
    \E i \in 1..Len(calls) : calls[i] = [stage |-> "analyze_data", ret |-> "True"]

\* C6: a generate_report call made while analysis_results is empty returns
\* False and writes nothing, and a document has been written only if some
\* earlier analyze_data call succeeded.
C6_NoReportWithoutResult ==
    /\ [][(Called("generate_report") /\ analysis_results = EmptyDict) =>
             /\ Last(calls').ret = "False"
             /\ output' = output
             /\ writes' = writes]_vars
    /\ []((writes > 0 \/ output # NoDocument) => SomeAnalyzeSucceeded)

\* generate_report was called on a generator that holds data but no result
C6_Witness ==
    /\ calls # <<>> /\ Last(calls) = [stage |-> "generate_report", ret |-> "False"]
    /\ data # <<>> /\ analysis_results = EmptyDict /\ writes = 0

\* max(value1_max, value2_max, 1): the larger maximum with a floor of 1
FlooredMax(res) ==
    LET m == IF Less(res.value1_max, res.value2_max)
             THEN res.value2_max ELSE res.value1_max
    IN  IF Less(m, One) THEN One ELSE m

\* C7 as stated: each bar drawn has width (avg / max(value1_max, value2_max,
\* 1)) * 100.
C7_AsStated ==
    (RenderCalled /\ calls[3].ret = "True") =>
        LET res == analysis_results IN
        /\ output.bars.value1.width =
              Mul(Div(res.value1_avg, FlooredMax(res)), Num(100))
        /\ output.bars.value2.width =
              Mul(Div(res.value2_avg, FlooredMax(res)), Num(100))

\* the larger maximum as max() compares them, and 1 in its place when it is 0
LargerMaxOrOne(res) ==
    LET m == IF Less(res.value1_max, res.value2_max)
             THEN res.value2_max ELSE res.value1_max
    IN  IF ~m.nan /\ m.n = 0 THEN One ELSE m

\* C7 amended: each bar drawn has width (avg / m) * 100 where m is the larger
\* of value1_max and value2_max, and 1 only when that is 0: a larger maximum
\* below 1 (or negative) is the denominator as it is.
C7_ScaledByLargerMax ==
    (RenderCalled /\ calls[3].ret = "True") =>
        LET res == analysis_results IN
        /\ output.bars.value1.width =
              Mul(Div(res.value1_avg, LargerMaxOrOne(res)), Num(100))
        /\ output.bars.value2.width =
              Mul(Div(res.value2_avg, LargerMaxOrOne(res)), Num(100))

\* a report whose larger maximum lies strictly between 0 and 1
C7_Witness ==
    /\ RenderCalled /\ calls[3].ret = "True"
    /\ analysis_results.value2_max = Rat(1, 2)
    /\ analysis_results.value1_max = Zero
    /\ output.bars.value2.width = Num(100)

BothMaxZero ==
    analysis_results # EmptyDict /\ analysis_results.value1_max = Zero
    /\ analysis_results.value2_max = Zero

\* C8 as stated, on results whose averages are numbers: with value1_max = 0
\* and value2_max = 0, generate_report (on a writable sink) raises nothing
\* and draws both bars at width 0.
C8_AsStated ==
    (RenderCalled /\ sinkOk /\ BothMaxZero
       /\ ~analysis_results.value1_avg.nan /\ ~analysis_results.value2_avg.nan) =>
        /\ calls[3].ret = "True"
        /\ output.bars.value1.width = Zero
        /\ output.bars.value2.width = Zero

\* C8 amended: with value1_max = 0 and value2_max = 0, generate_report (on a
\* writable sink) raises nothing and draws each bar at width 100 * avg: 0 for
\* a series whose average is 0, negative for a series of negative average.
C8_ZeroMaxScalesByHundred ==
    (RenderCalled /\ sinkOk /\ BothMaxZero) =>
        LET res == analysis_results IN
        /\ calls[3].ret = "True"
        /\ output.bars.value1.width = Mul(Num(100), res.value1_avg)
        /\ output.bars.value2.width = Mul(Num(100), res.value2_avg)
        /\ res.value1_avg = Zero => output.bars.value1.width = Zero
        /\ res.value2_avg = Zero => output.bars.value2.width = Zero
        /\ Less(res.value1_avg, Zero) => Less(output.bars.value1.width, Zero)

\* both columns present and all zero: both bars at width 0
C8_Witness ==
    /\ RenderCalled /\ sinkOk /\ BothMaxZero /\ calls[3].ret = "True"
    /\ Carrying("value1") # {} /\ Carrying("value2") # {}
    /\ output.bars.value1.width = Zero /\ output.bars.value2.width = Zero

\* C9: every call of load_data, analyze_data and generate_report returns True
\* or False to its caller; none ends by raising, an unwritable sink included.
C9_EveryCallReturnsASignal ==
    \A i \in 1..Len(calls) : calls[i].ret \in {"True", "False"}

\* C10: an analyze_data call that returns False leaves data and
\* analysis_results as they were, and analysis_results is always empty or the
\* complete result of the latest analyze_data call that returned True.
C10_FailedAnalyzeChangesNothing ==
    /\ [][(Called("analyze_data") /\ Last(calls').ret = "False") =>
             (data' = data /\ analysis_results' = analysis_results)]_vars
    /\ [](\/ analysis_results = EmptyDict
          \/ /\ DOMAIN analysis_results = ResultKeys
             /\ analysis_results = lastGood
             /\ SomeAnalyzeSucceeded)

\* a failed analyze_data after a successful one: the earlier result is kept
C10_Witness ==
    /\ calls # <<>> /\ Last(calls) = [stage |-> "analyze_data", ret |-> "False"]
    /\ analysis_results # EmptyDict
    /\ data # <<>>

====
